---- MODULE Spec2Model ----
(***************************************************************************)
(* Event handler normalisation and merging of reactpy/core/events.py:      *)
(* event, EventHandler, to_event_handler_function, merge_event_handlers,   *)
(* merge_event_handler_funcs, and one dispatch of a handler function       *)
(* (a plain coroutine, or the task group of await_all_event_handlers).     *)
(*                                                                         *)
(* Python semantics the model rests on:                                    *)
(*  - calling an "async def" function runs none of its body: the body runs *)
(*    when the coroutine is awaited (or run as a task); calling a plain    *)
(*    function runs its body inside the call;                              *)
(*  - anyio's task group: start_soon only creates the task; leaving the    *)
(*    "async with" block waits for every child; a child that raises, or a  *)
(*    cancellation of the host, cancels the group's scope; a child that is *)
(*    suspended in a cancelled scope receives the cancellation at that     *)
(*    suspension point; a child that has not started yet runs up to its    *)
(*    first suspension point; the errors of the children leave the block   *)
(*    together (an exception group; with one error older versions of the   *)
(*    library raise that error itself).                                    *)
(*  "suspended" means waiting for something that has not happened yet; a   *)
(*  user callable does not catch the cancellation it receives.             *)
(***************************************************************************)
EXTENDS Naturals, Sequences, FiniteSets

\* Bound of the model: the longest sequence of handlers.
MaxHandlers == 3

VARIABLES
    pc,             \* "build" | "merged" | "called" | "running" | "done"
    inputs,         \* what each handler was constructed from: [ctor, fn]
    handlers,       \* the EventHandler objects constructed so far
    hres,           \* <<>> or <<result of merge_event_handlers(handlers)>>
    fres,           \* <<>> or <<result of merge_event_handler_funcs(functions)>>
    fn,             \* <<>> or <<the handler function being dispatched>>
    data,           \* the event data sequence of the dispatch
    tasks,          \* the invocations of the dispatch, one per underlying function
    hostCancelled,  \* the calling context cancelled the dispatch
    outcome         \* <<>> or <<how the dispatch ended>>

vars == <<pc, inputs, handlers, hres, fres, fn, data, tasks, hostCancelled, outcome>>

----------------------------------------------------------------------------
\* Values

\* A user callable: plain ("def") or coroutine function ("async def").
User(id, coro) ==
    [kind |-> "user", id |-> id, coro |-> coro, positional |-> FALSE,
     awaits |-> FALSE, inner |-> <<>>]

Callables == {User("f", FALSE), User("g", TRUE)}

\* target: None or an identifier.
Targets == {"None", "t1"}

\* Event data sequences.
DataValues == {<<"a">>, <<"a", "b">>}

\* One positional argument of a call: an element of the data, or the whole sequence.
Scalar(x) == [list |-> FALSE, val |-> <<x>>]
ListArg(d) == [list |-> TRUE, val |-> d]

\* function(*data)
Spread(d) == [i \in 1..Len(d) |-> Scalar(d[i])]
\* function(data)
Single(d) == <<ListArg(d)>>

iscoroutinefunction(function) == function.coro

\* The closures "wrapper" of to_event_handler_function: an async def that calls
\* function(*data) or function(data), and awaits the call when the function was
\* found to be a coroutine function.
wrapper(function, positional_args) ==
    [kind |-> "wrapper", id |-> "wrapper", coro |-> TRUE,
     positional |-> positional_args,
     awaits |-> iscoroutinefunction(function), inner |-> <<function>>]

\* Faulty variant: the plain callable is handed back unwrapped.
to_event_handler_function_unwrapped(function, positional_args) ==
    IF positional_args THEN wrapper(function, TRUE) ELSE function

\* Faulty variant: the positional_args flag is ignored, the data is never spread.
to_event_handler_function_nospread(function, positional_args) ==
    IF ~iscoroutinefunction(function) THEN wrapper(function, FALSE) ELSE function

to_event_handler_function(function, positional_args) ==
    IF positional_args
    THEN wrapper(function, TRUE)
    ELSE IF ~iscoroutinefunction(function)
         THEN wrapper(function, FALSE)
         ELSE function

\* EventHandler.__init__; oid stands for the identity of the new object.
EventHandler(function, stop_propagation, prevent_default, target, oid) ==
    [function |-> to_event_handler_function(function, FALSE),
     prevent_default |-> prevent_default,
     stop_propagation |-> stop_propagation,
     target |-> target,
     oid |-> oid]

\* event(function, stop_propagation=..., prevent_default=...)
event(function, stop_propagation, prevent_default, oid) ==
    EventHandler(to_event_handler_function(function, TRUE),
                 stop_propagation, prevent_default, "None", oid)

\* The closure await_all_event_handlers over "functions".
await_all_event_handlers(functions) ==
    [kind |-> "merged", id |-> "await_all_event_handlers", coro |-> TRUE,
     positional |-> FALSE, awaits |-> TRUE, inner |-> functions]

\* A call that returned a value, and a call that raised ValueError.
Returned(v) == [raised |-> FALSE, value |-> <<v>>]
ValueError == [raised |-> TRUE, value |-> <<>>]

\* Faulty variant: a single function is wrapped like any other sequence.
merge_event_handler_funcs_wrap_one(functions) ==
    IF Len(functions) = 0
    THEN ValueError
    ELSE Returned(await_all_event_handlers(functions))

\* Faulty variant: an empty sequence yields a function awaiting nothing.
merge_event_handler_funcs_no_empty_check(functions) ==
    IF Len(functions) = 1
    THEN Returned(functions[1])
    ELSE Returned(await_all_event_handlers(functions))

\* Faulty variant: the last function is left out of the merged function.
merge_event_handler_funcs_drop_last(functions) ==
    IF Len(functions) = 0
    THEN ValueError
    ELSE IF Len(functions) = 1
         THEN Returned(functions[1])
         ELSE Returned(await_all_event_handlers(
                  SubSeq(functions, 1, Len(functions) - 1)))

merge_event_handler_funcs(functions) ==
    IF Len(functions) = 0
    THEN ValueError
    ELSE IF Len(functions) = 1
         THEN Returned(functions[1])
         ELSE Returned(await_all_event_handlers(functions))

\* Faulty variant: the target is not compared.
mismatch_without_target(handler, first_handler) ==
    \/ handler.stop_propagation # first_handler.stop_propagation
    \/ handler.prevent_default # first_handler.prevent_default

\* The test of the validation loop of merge_event_handlers.
mismatch(handler, first_handler) ==
    \/ handler.stop_propagation # first_handler.stop_propagation
    \/ handler.prevent_default # first_handler.prevent_default
    \/ handler.target # first_handler.target

\* oid is the identity a newly built EventHandler gets.
merge_event_handlers(event_handlers, oid) ==
    IF Len(event_handlers) = 0
    THEN ValueError
    ELSE IF Len(event_handlers) = 1
         THEN Returned(event_handlers[1])
         ELSE LET first_handler == event_handlers[1]
              IN  IF \E i \in 1..Len(event_handlers) :
                         mismatch(event_handlers[i], first_handler)
                  THEN ValueError
                  ELSE Returned(EventHandler(
                           merge_event_handler_funcs(
                               [i \in 1..Len(event_handlers) |->
                                   event_handlers[i].function]).value[1],
                           first_handler.stop_propagation,
                           first_handler.prevent_default,
                           first_handler.target,
                           oid))

----------------------------------------------------------------------------
\* Construction and merging

Init ==
    /\ pc = "build"
    /\ inputs = <<>>
    /\ handlers = <<>>
    /\ hres = <<>>
    /\ fres = <<>>
    /\ fn = <<>>
    /\ data = <<>>
    /\ tasks = <<>>
    /\ hostCancelled = FALSE
    /\ outcome = <<>>

dispatchVars == <<fn, data, tasks, hostCancelled, outcome>>

\* handlers.append(event(function, stop_propagation=..., prevent_default=...))
Event(function, stop_propagation, prevent_default) ==
    /\ pc = "build"
    /\ Len(handlers) < MaxHandlers
    /\ handlers' = Append(handlers,
           event(function, stop_propagation, prevent_default, Len(handlers) + 1))
    /\ inputs' = Append(inputs, [ctor |-> "event", fn |-> function])
    /\ UNCHANGED <<pc, hres, fres, dispatchVars>>

\* handlers.append(EventHandler(function, stop_propagation, prevent_default, target))
NewEventHandler(function, stop_propagation, prevent_default, target) ==
    /\ pc = "build"
    /\ Len(handlers) < MaxHandlers
    /\ handlers' = Append(handlers,
           EventHandler(function, stop_propagation, prevent_default, target,
                        Len(handlers) + 1))
    /\ inputs' = Append(inputs, [ctor |-> "EventHandler", fn |-> function])
    /\ UNCHANGED <<pc, hres, fres, dispatchVars>>

\* merge_event_handlers(handlers)
MergeHandlers ==
    /\ pc \in {"build", "merged"}
    /\ hres = <<>>
    /\ hres' = <<merge_event_handlers(handlers, Len(handlers) + 1)>>
    /\ pc' = "merged"
    /\ UNCHANGED <<inputs, handlers, fres, dispatchVars>>

\* merge_event_handler_funcs([h.function for h in handlers])
MergeFuncs ==
    /\ pc \in {"build", "merged"}
    /\ fres = <<>>
    /\ fres' = <<merge_event_handler_funcs(
                    [i \in 1..Len(handlers) |-> handlers[i].function])>>
    /\ pc' = "merged"
    /\ UNCHANGED <<inputs, handlers, hres, dispatchVars>>

----------------------------------------------------------------------------
\* One dispatch: handler.function(data), awaited

Option(res) == IF res = <<>> \/ res[1].raised THEN <<>> ELSE res[1].value

\* The handler function a caller can dispatch after merge_event_handlers.
Dispatchable == {Option(hres)[i].function : i \in 1..Len(Option(hres))}

\* One invocation of an underlying function: the function, the argument it was
\* started with, where it stands, the exception it raised, and the calls it
\* made to the user callable.
NewTask(func, arg) ==
    [fn |-> func, arg |-> arg, st |-> "created", err |-> "none", calls |-> <<>>]

\* The user callable a handler function calls, with which arguments, and
\* whether the result of the call is awaited.
Callee(func) == IF func.kind = "wrapper" THEN func.inner[1] ELSE func
Args(func, arg) ==
    IF func.kind = "wrapper" /\ func.positional THEN Spread(arg) ELSE Single(arg)
Awaited(func) == IF func.kind = "wrapper" THEN func.awaits ELSE TRUE

\* A coroutine body runs until it suspends (any number of times), returns
\* or raises.
BodySegment(t) ==
    {[t EXCEPT !.st = "suspended"],
     [t EXCEPT !.st = "done"],
     [t EXCEPT !.st = "failed", !.err = Callee(t.fn).id]}

\* The first run of an invocation: the call of the user callable, and what
\* follows up to the first suspension point.
FirstSegment(t) ==
    LET c == Callee(t.fn)
        called == [t EXCEPT !.calls =
                       Append(@, [callee |-> c.id, args |-> Args(t.fn, t.arg)])]
    IN  IF ~iscoroutinefunction(c)
        THEN \* the body of a plain function runs inside the call
             {[called EXCEPT !.st = "failed", !.err = c.id],
              IF Awaited(t.fn)
              THEN [called EXCEPT !.st = "failed", !.err = "TypeError"]
              ELSE [called EXCEPT !.st = "done"]}
        ELSE IF ~Awaited(t.fn)
             THEN \* a coroutine nobody awaits never runs
                  {[called EXCEPT !.st = "done"]}
             ELSE BodySegment(called)

Terminated(t) == t.st \in {"done", "failed", "cancelled"}

IsMerged == fn # <<>> /\ fn[1].kind = "merged"

\* Faulty variant: the first invocation to end ends the dispatch.
JoinReadyFirst(ts) == \E i \in 1..Len(ts) : Terminated(ts[i])

\* Leaving "async with create_task_group()": every child has ended.
JoinReady(ts) == \A i \in 1..Len(ts) : Terminated(ts[i])

\* Faulty variant: the errors of the children are dropped.
GroupErrorsDropped(ts) == {}

\* The errors the task group collected from its children.
GroupErrors(ts) == {ts[i].err : i \in {j \in 1..Len(ts) : ts[j].st = "failed"}}

\* Faulty variant: a cancellation of the host does not reach the children.
ScopeCancelledHostIgnored(merged, ts, cancelled) ==
    merged /\ GroupErrors(ts) # {}

\* Faulty variant: a failing child does not cancel its siblings.
ScopeCancelledErrorsIgnored(merged, ts, cancelled) == cancelled

\* The scope the invocations run in is cancelled.
ScopeCancelled(merged, ts, cancelled) ==
    cancelled \/ (merged /\ GroupErrors(ts) # {})

\* Faulty variant: the loop starts every function but the first.
SpawnAllButFirst(functions, arg) ==
    [i \in 1..(Len(functions) - 1) |-> NewTask(functions[i + 1], arg)]

\* for func in functions: group.start_soon(func, data)
SpawnAll(functions, arg) ==
    [i \in 1..Len(functions) |-> NewTask(functions[i], arg)]

Ended(st, group, errors) == [st |-> st, group |-> group, errors |-> errors]

\* How the awaited dispatch ends once nothing is left to wait for.
Outcome(merged, ts, cancelled) ==
    IF merged
    THEN IF GroupErrors(ts) # {}
         THEN Ended("failed", TRUE, GroupErrors(ts))
         ELSE IF cancelled
              THEN Ended("cancelled", FALSE, {})
              ELSE Ended("returned", FALSE, {})
    ELSE IF ts[1].st = "failed"
         THEN Ended("failed", FALSE, {ts[1].err})
         ELSE IF ts[1].st = "cancelled"
              THEN Ended("cancelled", FALSE, {})
              ELSE Ended("returned", FALSE, {})

\* coro = handler.function(d): an async def returns a coroutine object; a
\* plain function runs its body here and raises here.
Call(func, d) ==
    /\ pc = "merged"
    /\ func \in Dispatchable
    /\ fn' = <<func>>
    /\ data' = d
    /\ IF iscoroutinefunction(func)
       THEN /\ pc' = "called"
            /\ UNCHANGED <<tasks, outcome>>
       ELSE \E r \in FirstSegment(NewTask(func, d)) :
                /\ tasks' = <<r>>
                /\ pc' = "done"
                /\ outcome' = <<IF r.err = "TypeError"
                                THEN Ended("failed", FALSE, {r.err})
                                ELSE Ended("raised_sync", FALSE, {r.err})>>
    /\ UNCHANGED <<inputs, handlers, hres, fres, hostCancelled>>

\* await coro: a merged function enters the task group and starts one task
\* per function; any other handler function is the one invocation.
Await ==
    /\ pc = "called"
    /\ pc' = "running"
    /\ tasks' = IF IsMerged
                THEN SpawnAll(fn[1].inner, data)
                ELSE <<NewTask(fn[1], data)>>
    /\ UNCHANGED <<inputs, handlers, hres, fres, fn, data, hostCancelled, outcome>>

\* An invocation starts running.
Start(i) ==
    /\ pc = "running"
    /\ tasks[i].st = "created"
    /\ \E r \in FirstSegment(tasks[i]) : tasks' = [tasks EXCEPT ![i] = r]
    /\ UNCHANGED <<pc, inputs, handlers, hres, fres, fn, data, hostCancelled, outcome>>

\* What a suspended invocation waits for happens: it runs on.
Resume(i) ==
    /\ pc = "running"
    /\ tasks[i].st = "suspended"
    /\ ~ScopeCancelled(IsMerged, tasks, hostCancelled)
    /\ \E r \in BodySegment(tasks[i]) : tasks' = [tasks EXCEPT ![i] = r]
    /\ UNCHANGED <<pc, inputs, handlers, hres, fres, fn, data, hostCancelled, outcome>>

\* A suspended invocation receives the cancellation of its scope.
DeliverCancel(i) ==
    /\ pc = "running"
    /\ tasks[i].st = "suspended"
    /\ ScopeCancelled(IsMerged, tasks, hostCancelled)
    /\ tasks' = [tasks EXCEPT ![i].st = "cancelled"]
    /\ UNCHANGED <<pc, inputs, handlers, hres, fres, fn, data, hostCancelled, outcome>>

\* The calling context cancels the dispatch while it waits.
HostCancel ==
    /\ pc = "running"
    /\ ~hostCancelled
    /\ \E i \in 1..Len(tasks) : ~Terminated(tasks[i])
    /\ IsMerged \/ \E i \in 1..Len(tasks) : tasks[i].st = "suspended"
    /\ hostCancelled' = TRUE
    /\ UNCHANGED <<pc, inputs, handlers, hres, fres, fn, data, tasks, outcome>>

\* The awaited dispatch ends.
Finish ==
    /\ pc = "running"
    /\ JoinReady(tasks)
    /\ pc' = "done"
    /\ outcome' = <<Outcome(IsMerged, tasks, hostCancelled)>>
    /\ UNCHANGED <<inputs, handlers, hres, fres, fn, data, tasks, hostCancelled>>

----------------------------------------------------------------------------
\* Specifications

\* Handlers are constructed, merged, and the merged handler is dispatched once.
\* prevent_default and target keep their defaults here (False, None);
\* SpecMerge varies all three attributes.
Next ==
    \/ \E c \in Callables, sp \in BOOLEAN : Event(c, sp, FALSE)
    \/ \E c \in Callables, sp \in BOOLEAN : NewEventHandler(c, sp, FALSE, "None")
    \/ MergeHandlers
    \/ \E f \in Dispatchable, d \in DataValues : Call(f, d)
    \/ Await
    \/ \E i \in 1..Len(tasks) : Start(i)
    \/ \E i \in 1..Len(tasks) : Resume(i)
    \/ \E i \in 1..Len(tasks) : DeliverCancel(i)
    \/ HostCancel
    \/ Finish

Spec == Init /\ [][Next]_vars

\* The two merge functions applied to every sequence of handlers.
NextMerge ==
    \/ \E c \in Callables, sp \in BOOLEAN, pd \in BOOLEAN : Event(c, sp, pd)
    \/ \E c \in Callables, sp \in BOOLEAN, pd \in BOOLEAN, t \in Targets :
           NewEventHandler(c, sp, pd, t)
    \/ MergeHandlers
    \/ MergeFuncs

SpecMerge == Init /\ [][NextMerge]_vars

----------------------------------------------------------------------------
\* Properties

\* The user callable handler i was constructed from.
Underlying(i) == inputs[i].fn

Agree(hs) ==
    \A i \in 1..Len(hs) :
        /\ hs[i].stop_propagation = hs[1].stop_propagation
        /\ hs[i].prevent_default = hs[1].prevent_default
        /\ hs[i].target = hs[1].target

AllEnded == \A i \in 1..Len(tasks) : tasks[i].st \in {"done", "failed", "cancelled"}

\* C1: when the handler merged from two or more agreeing handlers has been
\* dispatched with data d, there is exactly one invocation per handler of the
\* sequence, in which that handler's function was started with d and called its
\* user callable once; no invocation ever makes a second call.
C1_MergedDispatchInvokesEachOnce ==
    /\ \A i \in 1..Len(tasks) : Len(tasks[i].calls) <= 1
    /\ (pc = "done" /\ Len(handlers) >= 2 /\ Agree(handlers)) =>
           /\ Len(tasks) = Len(handlers)
           /\ \A i \in 1..Len(handlers) :
                  /\ tasks[i].fn = handlers[i].function
                  /\ tasks[i].arg = data
                  /\ tasks[i].st # "created"
                  /\ Len(tasks[i].calls) = 1
                  /\ tasks[i].calls[1].callee = Underlying(i).id

\* A dispatch of three merged handlers, two of them made from the same
\* callable, has returned.
C1_Witness ==
    /\ pc = "done"
    /\ Len(handlers) = 3
    /\ inputs[1] = inputs[3]
    /\ inputs[1] # inputs[2]
    /\ outcome[1].st = "returned"

\* C2: a dispatch of a merged function has no result while one of its
\* invocations has not ended, and it returns normally only when every one of
\* them has returned.
C2_JoinAll ==
    (IsMerged /\ outcome # <<>>) =>
        /\ \A i \in 1..Len(tasks) : tasks[i].st \in {"done", "failed", "cancelled"}
        /\ outcome[1].st = "returned" =>
               \A i \in 1..Len(tasks) : tasks[i].st = "done"

\* One invocation has returned while another is suspended: the dispatch waits.
C2_Witness ==
    /\ IsMerged
    /\ pc = "running"
    /\ \E i, j \in 1..Len(tasks) :
           tasks[i].st = "done" /\ tasks[j].st = "suspended"

\* C3: calling the function made by to_event_handler_function never raises
\* inside the call, and when the user callable raised e the awaited dispatch
\* fails with e itself.
C3_RaisesThroughAwait ==
    (fn # <<>> /\ ~IsMerged) =>
        /\ outcome # <<>> => outcome[1].st # "raised_sync"
        /\ (pc = "done" /\ tasks[1].st = "failed") =>
               /\ tasks[1].err = Underlying(1).id
               /\ outcome[1] = [st |-> "failed", group |-> FALSE,
                                errors |-> {Underlying(1).id}]

\* A plain callable wrapped with positional_args=False raised, and the
\* dispatch has failed.
C3_Witness ==
    /\ pc = "done"
    /\ ~IsMerged
    /\ inputs[1].ctor = "EventHandler"
    /\ ~inputs[1].fn.coro
    /\ tasks[1].st = "failed"
    /\ outcome[1].st = "failed"

\* C4: when a dispatch of a merged function has ended and one of its
\* invocations raised, the dispatch failed and its failure holds the error of
\* every invocation that raised.
C4_ErrorsInOutcome ==
    (IsMerged /\ pc = "done"
        /\ \E i \in 1..Len(tasks) : tasks[i].st = "failed") =>
        /\ outcome[1].st = "failed"
        /\ \A i \in 1..Len(tasks) :
               tasks[i].st = "failed" => tasks[i].err \in outcome[1].errors

\* Two invocations raised different errors and the failure holds both.
C4_Witness ==
    /\ IsMerged
    /\ pc = "done"
    /\ \E i, j \in 1..Len(tasks) :
           /\ tasks[i].st = "failed"
           /\ tasks[j].st = "failed"
           /\ tasks[i].err # tasks[j].err
    /\ Cardinality(outcome[1].errors) = 2

\* C5: once the calling context has cancelled a dispatch of a merged function,
\* a suspended invocation never runs on (it stays suspended or is cancelled),
\* and the dispatch has ended only when every invocation has ended.
C5_HostCancelReachesAll ==
    /\ []((IsMerged /\ hostCancelled /\ outcome # <<>>) => AllEnded)
    /\ [][(IsMerged /\ hostCancelled) =>
             \A i \in 1..Len(tasks) :
                 tasks[i].st = "suspended" =>
                     tasks'[i].st \in {"suspended", "cancelled"}]_vars

\* A cancelled dispatch has ended with a cancelled invocation.
C5_Witness ==
    /\ IsMerged
    /\ pc = "done"
    /\ hostCancelled
    /\ outcome[1].st = "cancelled"
    /\ \E i \in 1..Len(tasks) : tasks[i].st = "cancelled"

\* C10: once an invocation of a merged dispatch has raised, a suspended
\* sibling never runs on (it stays suspended or is cancelled), and the dispatch
\* has failed only when every invocation has ended.
C10_FailureCancelsSiblings ==
    /\ []((IsMerged /\ outcome # <<>> /\ outcome[1].st = "failed") => AllEnded)
    /\ [][(IsMerged /\ \E j \in 1..Len(tasks) : tasks[j].st = "failed") =>
             \A i \in 1..Len(tasks) :
                 tasks[i].st = "suspended" =>
                     tasks'[i].st \in {"suspended", "cancelled"}]_vars

\* Without any cancellation by the caller, a dispatch has failed and a sibling
\* was cancelled in the middle of its body.
C10_Witness ==
    /\ IsMerged
    /\ pc = "done"
    /\ ~hostCancelled
    /\ outcome[1].st = "failed"
    /\ \E i \in 1..Len(tasks) : tasks[i].st = "cancelled"

\* C6: for two or more handlers merge_event_handlers raises exactly when some
\* handler differs from the first in stop_propagation, prevent_default or
\* target; raising it returns no handler, and otherwise the handler it returns
\* carries the three attributes of the first.
C6_MergeValidates ==
    (Len(handlers) >= 2 /\ hres # <<>>) =>
        /\ hres[1].raised <=> ~Agree(handlers)
        /\ hres[1].raised => hres[1].value = <<>>
        /\ ~hres[1].raised =>
               /\ Len(hres[1].value) = 1
               /\ hres[1].value[1].stop_propagation = handlers[1].stop_propagation
               /\ hres[1].value[1].prevent_default = handlers[1].prevent_default
               /\ hres[1].value[1].target = handlers[1].target

\* Handlers that differ in nothing but the target were refused.
C6_Witness ==
    /\ Len(handlers) >= 2
    /\ hres # <<>>
    /\ hres[1].raised
    /\ \A i \in 1..Len(handlers) :
           /\ handlers[i].stop_propagation = handlers[1].stop_propagation
           /\ handlers[i].prevent_default = handlers[1].prevent_default
    /\ handlers[2].target # handlers[1].target

\* C7: on an empty sequence both merge functions raise and return nothing.
C7_EmptyRaises ==
    Len(handlers) = 0 =>
        /\ hres # <<>> => (hres[1].raised /\ hres[1].value = <<>>)
        /\ fres # <<>> => (fres[1].raised /\ fres[1].value = <<>>)

\* Both merge functions were applied to the empty sequence.
C7_Witness ==
    /\ Len(handlers) = 0
    /\ hres # <<>>
    /\ fres # <<>>

\* C8: on a sequence of one, merge_event_handlers returns that handler (the
\* same object) and merge_event_handler_funcs returns that function.
C8_SingleIsIdentity ==
    Len(handlers) = 1 =>
        /\ hres # <<>> =>
               hres[1] = [raised |-> FALSE, value |-> <<handlers[1]>>]
        /\ fres # <<>> =>
               fres[1] = [raised |-> FALSE, value |-> <<handlers[1].function>>]

\* Both merge functions were applied to a sequence of one handler with
\* non-default attributes.
C8_Witness ==
    /\ Len(handlers) = 1
    /\ handlers[1].stop_propagation
    /\ handlers[1].target # "None"
    /\ hres # <<>>
    /\ fres # <<>>

\* C9: a dispatch of event(fn).function(d) has called fn once with the
\* elements of d as its arguments, and a dispatch of EventHandler(fn).function(d)
\* has called fn once with d as its one argument.
C9_ArgumentShape ==
    (pc = "done" /\ Len(handlers) = 1) =>
        /\ Len(tasks) = 1
        /\ tasks[1].calls =
               <<[callee |-> Underlying(1).id,
                  args |-> IF inputs[1].ctor = "event"
                           THEN [k \in 1..Len(data) |->
                                    [list |-> FALSE, val |-> <<data[k]>>]]
                           ELSE <<[list |-> TRUE, val |-> data]>>]>>

\* event(g) for a coroutine function g was dispatched with two values.
C9_Witness ==
    /\ pc = "done"
    /\ Len(handlers) = 1
    /\ inputs[1].ctor = "event"
    /\ inputs[1].fn.coro
    /\ Len(data) = 2
    /\ outcome[1].st = "returned"

====
